---- MODULE Spec2Model ----
(***************************************************************************)
(* Run-orchestration controller of the SudoDev frontend                    *)
(* (src/frontend/app/page.tsx, component Home).                            *)
(*                                                                         *)
(* The state is the React state of Home (view, instanceId, context, runId, *)
(* status, currentStep, logs, loading, patch) together with the browser    *)
(* resources the component creates: the polling interval of the useEffect, *)
(* the getStatus fetches awaiting their response, the settle timeouts, and *)
(* the startRun fetch of handleSubmit.  Every action is one event-loop     *)
(* task.  The state variables hold the state with every queued update      *)
(* applied; `shown` is the state React committed last, which the page      *)
(* displays, and `effectDeps` the [view, runId] the polling effect ran     *)
(* with last.  A handler run by a user interaction (typing, submit, reset) *)
(* is rendered within its own task: that render carries every queued       *)
(* update (React 19 renders sync and default updates in one pass) and      *)
(* runs the polling effect before the task ends.  A handler run by a timer *)
(* or by a settled fetch only queues its updates: React commits them in a  *)
(* later task (action render) and runs the polling effect after that       *)
(* commit (action runEffect); effects still pending are run before the     *)
(* next render starts.                                                     *)
(***************************************************************************)
EXTENDS Integers, Sequences, FiniteSets, TLC

\* ------------------------------------------------------------------ bounds
\* number of runs the remote API accepts in one exploration
MaxRuns == 2
\* number of getStatus requests issued in one exploration
MaxPolls == 3

\* --------------------------------------------------------------- constants
\* number of pipeline stages in the `steps` list
NumSteps == 6

\* the run identifiers the remote API hands out, one per accepted run
RunIds == <<"run-1", "run-2", "run-3", "run-4">>

\* the empty string held by runId before a run is accepted
NoRun == ""

\* texts the user can have typed in the two form fields
InstanceIds == {"", "django__django-11001"}
Contexts == {"", "extra"}

\* ---------------------------------------------------------------- payloads
\* An optional JSON field is a sequence: <<>> when the field is absent,
\* <<v>> when it is present with value v.
Absent == <<>>

Payload(st, er, lg, cs, pa) ==
    [ok |-> TRUE, status |-> st, error |-> er, logs |-> lg,
     current_step |-> cs, patch |-> pa]

\* the body d sent with a non-success HTTP status (`response.ok` is false)
HttpError(d) == [d EXCEPT !.ok = FALSE]

\* status payloads the remote API answers a poll with
Payloads ==
    { Payload("pending",    Absent,     Absent,              Absent, Absent),
      Payload("processing", Absent,     << <<"l1">> >>,      <<2>>,  Absent),
      Payload("processing", Absent,     << <<"l1", "l2">> >>, <<0>>,  <<"diff">>),
      Payload("processing", Absent,     << <<>> >>,          <<7>>,  <<"">>),
      Payload("completed",  Absent,     << <<"l1", "l2">> >>, <<5>>,  <<"diff">>),
      Payload("completed",  Absent,     Absent,              Absent, Absent),
      Payload("failed",     Absent,     << <<"l1">> >>,      <<3>>,  <<"diff">>),
      Payload("completed",  <<"boom">>, << <<"l2">> >>,      <<5>>,  <<"diff">>),
      Payload("processing", <<"boom">>, Absent,              Absent, Absent),
      Payload("completed",  <<"">>,     << <<"l2">> >>,      <<4>>,  <<"diff">>),
      Payload("queued",     Absent,     << <<"l1">> >>,      <<1>>,  Absent),
      HttpError(Payload("processing", Absent, << <<"l2">> >>, <<1>>, Absent)),
      HttpError(Payload("completed",  Absent, Absent,         Absent, <<"diff">>)) }

\* placeholder carried by events that have no payload
NoData == Payload("", Absent, Absent, Absent, Absent)

\* variant of HasError that looks at the status of the payload first
HasError_unlessCompleted(d) ==
    d.error # Absent /\ d.error[1] # "" /\ d.status # "completed"

\* `if (data.error)`: the field is present and its string is not empty
HasError(d) == d.error # Absent /\ d.error[1] # ""

\* `data.logs || []`: a present array is kept as it is, also when empty
LogsOrEmpty(d) == IF d.logs = Absent THEN <<>> ELSE d.logs[1]

\* `data.current_step || 0`
StepOrZero(d) == IF d.current_step = Absent THEN 0 ELSE d.current_step[1]

\* `data.patch || ""`
PatchOrEmpty(d) == IF d.patch = Absent THEN "" ELSE d.patch[1]

\* variant of IsFinal that stops the poller on completed only
IsFinal_onlyCompleted(d) == d.status = "completed"

\* `data.status === "completed" || data.status === "failed"`
IsFinal(d) == d.status = "completed" \/ d.status = "failed"

\* ------------------------------------------------------------------- state
VARIABLES
    view,         \* "input" | "hud" | "result"
    instanceId,   \* text of the instance field
    context,      \* text of the context field
    runId,        \* NoRun or the identifier of the accepted run
    status,       \* "idle" or the last status written
    currentStep,  \* index of the active pipeline stage
    logs,         \* log lines shown in the terminal
    loading,      \* TRUE while handleSubmit awaits startRun
    patch,        \* text of the generated patch
    pollInterval, \* armed setInterval timers, each by the runId it captured
    inflight,     \* getStatus fetches awaiting a response: [run, seq]
    settle,       \* pending setTimeout callbacks, oldest first: [run, data]
    submitting,   \* TRUE while the POST /api/run fetch is outstanding
    accepted,     \* number of runs the remote API has accepted
    issued,       \* number of getStatus requests issued
    fatal,        \* runs one of whose polls was rejected
    finished,     \* runs one of whose polls answered completed or failed
    applied,      \* the fetch whose payload was written to the store last
    shown,        \* state of the last commit: [view, runId, loading]
    effectDeps,   \* [view, runId] of the last run of the polling effect
    last          \* the handler that ran last: [ev, run, data, pre]

vars == <<view, instanceId, context, runId, status, currentStep, logs, loading,
          patch, pollInterval, inflight, settle, submitting, accepted, issued,
          fatal, finished, applied, shown, effectDeps, last>>

\* ------------------------------------------------------------------ phases
\* ControllerPhase read off the component state: the view, the loading
\* flag, the status handed to Results and, in the hud view, the settle
\* timer a final answer of the stored run has set.
Phase ==
    CASE view = "result" -> IF status = "completed" THEN "Resolved" ELSE "Failed"
      [] view = "hud"    -> IF \E i \in DOMAIN settle : settle[i].run = runId
                            THEN "Settling" ELSE "Active"
      [] OTHER           -> IF loading THEN "Submitting" ELSE "Idle"

Event(e, r, d) == [ev |-> e, run |-> r, data |-> d, pre |-> Phase]

\* ----------------------------------------------------------------- Results
\* variant of ShownPatch that shows a stored patch whatever the status
ShownPatch_always == IF view = "result" THEN patch ELSE ""

\* the patch text Results renders (and offers for download): the block and
\* the button are guarded by `isSuccess && patch`
ShownPatch ==
    IF view = "result" /\ status = "completed" THEN patch ELSE ""

\* ------------------------------------------------------------ polling effect
\* useEffect(..., [view, runId]) for a commit with view v and runId r, when
\* its previous run had the dependencies prev and the intervals iv are
\* armed: a changed dependency runs the cleanup of the previous effect run
\* (clearInterval of the interval it had created, the one that captured the
\* previous runId) and then the effect body, which arms a new interval only
\* in the hud view with a non-empty runId.
PollEffect(prev, v, r, iv) ==
    IF <<v, r>> = <<prev.view, prev.runId>> THEN iv
    ELSE (iv \ {prev.runId}) \cup (IF v # "hud" \/ r = NoRun THEN {} ELSE {r})

\* clearInterval(pollInterval) inside the callback created for run r
ClearInterval(r) == pollInterval \ {r}

\* the armed intervals once the effect of the last commit has run, if it
\* was still pending
FlushEffects == PollEffect(effectDeps, shown.view, shown.runId, pollInterval)

\* the render of a user interaction with view v, runId r and loading l: the
\* pending effect runs first, every queued update is committed and the
\* polling effect of this commit runs in the same task
SyncRender(v, r, l) ==
    /\ shown' = [view |-> v, runId |-> r, loading |-> l]
    /\ effectDeps' = [view |-> v, runId |-> r]
    /\ pollInterval' = PollEffect(shown, v, r, FlushEffects)

\* -------------------------------------------------------------------- Init
Init ==
    /\ view = "input"
    /\ instanceId = ""
    /\ context = ""
    /\ runId = NoRun
    /\ status = "idle"
    /\ currentStep = 0
    /\ logs = <<>>
    /\ loading = FALSE
    /\ patch = ""
    /\ pollInterval = {}
    /\ inflight = {}
    /\ settle = <<>>
    /\ submitting = FALSE
    /\ accepted = 0
    /\ issued = 0
    /\ fatal = {}
    /\ finished = {}
    /\ applied = [run |-> NoRun, seq |-> 0]
    /\ shown = [view |-> "input", runId |-> NoRun, loading |-> FALSE]
    /\ effectDeps = [view |-> "input", runId |-> NoRun]
    /\ last = [ev |-> "init", run |-> NoRun, data |-> NoData, pre |-> "Idle"]

\* ----------------------------------------------------------------- actions
\* Input: onChange of the instance field
setInstanceId ==
    /\ shown.view = "input"
    /\ \E v \in InstanceIds :
          /\ v # instanceId
          /\ instanceId' = v
    /\ SyncRender(view, runId, loading)
    /\ last' = Event("setInstanceId", NoRun, NoData)
    /\ UNCHANGED <<view, context, runId, status, currentStep, logs, loading,
                   patch, inflight, settle, submitting, accepted,
                   issued, fatal,
                   finished, applied>>

\* Input: onChange of the context field
setContext ==
    /\ shown.view = "input"
    /\ \E v \in Contexts :
          /\ v # context
          /\ context' = v
    /\ SyncRender(view, runId, loading)
    /\ last' = Event("setContext", NoRun, NoData)
    /\ UNCHANGED <<view, instanceId, runId, status, currentStep, logs, loading,
                   patch, inflight, settle, submitting, accepted,
                   issued, fatal,
                   finished, applied>>

\* a click on "Deploy Agent" with an empty instance field: the `required`
\* attribute makes the browser refuse the submission, onSubmit is not called
submitBlocked ==
    /\ shown.view = "input"
    /\ ~shown.loading
    /\ instanceId = ""
    /\ last' = Event("submitBlocked", NoRun, NoData)
    /\ UNCHANGED <<view, instanceId, context, runId, status, currentStep, logs,
                   loading, patch, pollInterval, inflight, settle, submitting,
                   accepted, issued, fatal, finished, applied,
                   shown, effectDeps>>

\* variant of handleSubmit that is entered with an empty instance field
handleSubmit_unvalidated ==
    /\ shown.view = "input"
    /\ ~shown.loading
    /\ loading' = TRUE
    /\ logs' = <<>>
    /\ currentStep' = 0
    /\ status' = "pending"
    /\ submitting' = TRUE
    /\ SyncRender(view, runId, TRUE)
    /\ last' = Event("handleSubmit", NoRun, NoData)
    /\ UNCHANGED <<view, instanceId, context, runId, patch,
                   inflight, settle, accepted, issued, fatal, finished,
                   applied>>

\* variant of handleSubmit that sets the status only when startRun returns
handleSubmit_lateStatus ==
    /\ shown.view = "input"
    /\ ~shown.loading
    /\ instanceId # ""
    /\ loading' = TRUE
    /\ logs' = <<>>
    /\ currentStep' = 0
    /\ submitting' = TRUE
    /\ SyncRender(view, runId, TRUE)
    /\ last' = Event("handleSubmit", NoRun, NoData)
    /\ UNCHANGED <<view, instanceId, context, runId, status, patch,
                   pollInterval, inflight, settle, accepted, issued, fatal,
                   finished, applied>>

\* handleSubmit up to its first await: the form is rendered only in the input
\* view, the submit button is disabled while loading and the instance field
\* is `required`.
handleSubmit ==
    /\ shown.view = "input"
    /\ ~shown.loading
    /\ instanceId # ""
    /\ loading' = TRUE
    /\ logs' = <<>>
    /\ currentStep' = 0
    /\ status' = "pending"
    /\ submitting' = TRUE
    /\ SyncRender(view, runId, TRUE)
    /\ last' = Event("handleSubmit", NoRun, NoData)
    /\ UNCHANGED <<view, instanceId, context, runId, patch,
                   inflight, settle, accepted, issued, fatal,
                   finished, applied>>

\* handleSubmit resumed with a response that carries a run_id
startRunResolved ==
    /\ submitting
    /\ accepted < MaxRuns
    /\ LET r == RunIds[accepted + 1] IN
          /\ runId' = r
          /\ status' = "processing"
          /\ view' = "hud"
          /\ last' = Event("startRunResolved", r, NoData)
    /\ loading' = FALSE
    /\ submitting' = FALSE
    /\ accepted' = accepted + 1
    /\ UNCHANGED <<instanceId, context, currentStep, logs, patch, pollInterval,
                   inflight, settle, issued, fatal,
                   finished, applied,
                   shown, effectDeps>>

\* handleSubmit resumed in its catch block: fetch or response.json() threw,
\* or the response carries no run_id
startRunFailed ==
    /\ submitting
    /\ status' = "failed"
    /\ loading' = FALSE
    /\ submitting' = FALSE
    /\ last' = Event("startRunFailed", NoRun, NoData)
    /\ UNCHANGED <<view, instanceId, context, runId, currentStep, logs, patch,
                   pollInterval, inflight, settle, accepted, issued, fatal,
                   finished, applied,
                   shown, effectDeps>>

\* the setInterval callback up to its first await: one fetch per tick
pollTick ==
    /\ issued < MaxPolls
    /\ \E r \in pollInterval :
          /\ inflight' = inflight \cup {[run |-> r, seq |-> issued + 1]}
          /\ last' = Event("pollTick", r, NoData)
    /\ issued' = issued + 1
    /\ UNCHANGED <<view, instanceId, context, runId, status, currentStep, logs,
                   loading, patch, pollInterval, settle, submitting, accepted,
                   fatal,
                   finished, applied,
                   shown, effectDeps>>

\* variant of pollError that routes the error through the settle delay
pollError_viaSettle(p, d) ==
    /\ status' = "failed"
    /\ pollInterval' = ClearInterval(p.run)
    /\ settle' = Append(settle, [run |-> p.run, data |-> d])
    /\ UNCHANGED <<view, currentStep, logs, patch>>

\* variant of pollError that shows the logs sent along with the error
pollError_appliesLogs(p, d) ==
    /\ logs' = LogsOrEmpty(d)
    /\ status' = "failed"
    /\ view' = "result"
    /\ pollInterval' = ClearInterval(p.run)
    /\ UNCHANGED <<currentStep, patch, settle>>

\* the callback resumed with the payload d of fetch p, `data.error` branch
pollError(p, d) ==
    /\ status' = "failed"
    /\ view' = "result"
    /\ pollInterval' = ClearInterval(p.run)
    /\ UNCHANGED <<currentStep, logs, patch, settle>>

\* variant of pollApply that appends the polled log lines to the stored ones
pollApply_appendsLogs(p, d) ==
    /\ logs' = logs \o LogsOrEmpty(d)
    /\ currentStep' = StepOrZero(d)
    /\ status' = d.status
    /\ patch' = PatchOrEmpty(d)
    /\ IF IsFinal(d)
       THEN /\ pollInterval' = ClearInterval(p.run)
            /\ settle' = Append(settle, [run |-> p.run, data |-> d])
       ELSE UNCHANGED <<pollInterval, settle>>
    /\ UNCHANGED view

\* variant of pollApply that keeps the stored value of a field the payload
\* omits
pollApply_keepsOmitted(p, d) ==
    /\ logs' = IF d.logs = Absent THEN logs ELSE LogsOrEmpty(d)
    /\ currentStep' = IF d.current_step = Absent THEN currentStep
                      ELSE StepOrZero(d)
    /\ status' = d.status
    /\ patch' = IF d.patch = Absent THEN patch ELSE PatchOrEmpty(d)
    /\ IF IsFinal(d)
       THEN /\ pollInterval' = ClearInterval(p.run)
            /\ settle' = Append(settle, [run |-> p.run, data |-> d])
       ELSE UNCHANGED <<pollInterval, settle>>
    /\ UNCHANGED view

\* the callback resumed with the payload d of fetch p, state update
pollApply(p, d) ==
    /\ logs' = LogsOrEmpty(d)
    /\ currentStep' = StepOrZero(d)
    /\ status' = d.status
    /\ patch' = PatchOrEmpty(d)
    /\ IF IsFinal(d)
       THEN /\ pollInterval' = ClearInterval(p.run)
            /\ settle' = Append(settle, [run |-> p.run, data |-> d])
       ELSE UNCHANGED <<pollInterval, settle>>
    /\ UNCHANGED view

\* the setInterval callback resumed after both awaits
pollResolved ==
    \E p \in inflight, d \in Payloads :
       /\ inflight' = inflight \ {p}
       /\ IF HasError(d) THEN pollError(p, d) ELSE pollApply(p, d)
       /\ finished' = IF d.status \in {"completed", "failed"}
                      THEN finished \cup {p.run} ELSE finished
       /\ applied' = IF HasError(d) THEN applied ELSE p
       /\ last' = Event("pollResolved", p.run, d)
       /\ UNCHANGED <<instanceId, context, runId, loading, submitting,
                      accepted, issued, fatal,
                   shown, effectDeps>>

\* variant of pollRejected that keeps the interval armed, so the poll is retried
pollRejected_retries ==
    \E p \in inflight :
       /\ inflight' = inflight \ {p}
       /\ status' = "failed"
       /\ fatal' = fatal \cup {p.run}
       /\ last' = Event("pollRejected", p.run, NoData)
       /\ UNCHANGED <<view, pollInterval, instanceId, context, runId,
                      currentStep, logs, loading, patch, settle, submitting,
                      accepted, issued, finished, applied,
                   shown, effectDeps>>

\* the setInterval callback resumed in its catch block
pollRejected ==
    \E p \in inflight :
       /\ inflight' = inflight \ {p}
       /\ status' = "failed"
       /\ view' = "result"
       /\ pollInterval' = ClearInterval(p.run)
       /\ fatal' = fatal \cup {p.run}
       /\ last' = Event("pollRejected", p.run, NoData)
       /\ UNCHANGED <<instanceId, context, runId, currentStep, logs, loading,
                      patch, settle, submitting, accepted, issued, finished, applied,
                   shown, effectDeps>>

\* the setTimeout callback of the oldest pending settle timer
settleTimeout ==
    /\ settle # <<>>
    /\ view' = "result"
    /\ settle' = Tail(settle)
    /\ last' = Event("settleTimeout", Head(settle).run, Head(settle).data)
    /\ UNCHANGED <<instanceId, context, runId, status, currentStep, logs,
                   loading, patch, pollInterval, inflight, submitting,
                   accepted, issued, fatal,
                   finished, applied,
                   shown, effectDeps>>

\* reset, the onReset of Results ("New Session"), rendered in the result view
reset ==
    /\ shown.view = "result"
    /\ view' = "input"
    /\ instanceId' = ""
    /\ context' = ""
    /\ runId' = NoRun
    /\ status' = "idle"
    /\ logs' = <<>>
    /\ currentStep' = 0
    /\ patch' = ""
    /\ SyncRender("input", NoRun, loading)
    /\ last' = Event("reset", runId, NoData)
    /\ UNCHANGED <<loading, inflight, settle, submitting, accepted, issued,
                   fatal,
                   finished, applied>>

\* React renders the queued updates of timer and fetch callbacks and commits
\* them; an effect still pending from the previous commit runs first
render ==
    /\ shown # [view |-> view, runId |-> runId, loading |-> loading]
    /\ pollInterval' = FlushEffects
    /\ effectDeps' = [view |-> shown.view, runId |-> shown.runId]
    /\ shown' = [view |-> view, runId |-> runId, loading |-> loading]
    /\ last' = Event("render", runId, NoData)
    /\ UNCHANGED <<view, instanceId, context, runId, status, currentStep, logs,
                   loading, patch, inflight, settle, submitting, accepted,
                   issued, fatal, finished, applied>>

\* the polling effect of the last commit, run after that commit
runEffect ==
    /\ effectDeps # [view |-> shown.view, runId |-> shown.runId]
    /\ pollInterval' = FlushEffects
    /\ effectDeps' = [view |-> shown.view, runId |-> shown.runId]
    /\ last' = Event("runEffect", shown.runId, NoData)
    /\ UNCHANGED <<view, instanceId, context, runId, status, currentStep, logs,
                   loading, patch, inflight, settle, submitting, accepted,
                   issued, fatal, finished, applied, shown>>

Next ==
    \/ setInstanceId
    \/ setContext
    \/ submitBlocked
    \/ handleSubmit
    \/ startRunResolved
    \/ startRunFailed
    \/ pollTick
    \/ pollResolved
    \/ pollRejected
    \/ settleTimeout
    \/ reset
    \/ render
    \/ runEffect

Spec == Init /\ [][Next]_vars

\* the browser runs every timeout callback that is due, every fetch is
\* answered or rejected, and React renders the updates it has queued
FairSpec ==
    /\ Spec
    /\ WF_vars(render)
    /\ WF_vars(runEffect)
    /\ WF_vars(settleTimeout)
    /\ WF_vars(pollResolved \/ pollRejected)

\* ================================================================== claims
\* the handler that ran in this step
Ran(e) == last'.ev = e

\* a getStatus response or settle timer created for another run than the
\* one the session now holds
StaleRun == last'.run # runId

\* C1: a getStatus response requested for an old runId that arrives after a
\* reset, when a new run has been started under a new runId, leaves the
\* status, step index, log lines, artifact and phase of the new session
\* unchanged.
C1_StaleResponseLeavesNewRun ==
    [][(Ran("pollResolved") /\ runId # NoRun /\ StaleRun)
          => (UNCHANGED <<status, currentStep, logs, patch>> /\ Phase' = Phase)]_vars

\* C2: once reset has returned the controller to Idle, a poll response, a
\* poll failure or a settle timer left over from before the reset changes
\* neither the phase nor the status, step index, logs and artifact, and no
\* poll tick fires.
C2_NothingSurvivesReset ==
    [][(view = "input" /\ runId = NoRun)
          => /\ ~Ran("pollTick")
             /\ (Ran("pollResolved") \/ Ran("pollRejected") \/ Ran("settleTimeout"))
                   => UNCHANGED <<view, status, currentStep, logs, patch>>]_vars

\* C3: at most one getStatus request of a run is awaiting its response.
C3_AtMostOnePollInFlight ==
    \A r \in {p.run : p \in inflight} :
        Cardinality({p \in inflight : p.run = r}) <= 1

\* C4: whatever the phase in which reset is invoked, it leaves the
\* controller in Idle with an empty session: input view, no submission in
\* progress, status idle, an empty runId, empty instance and context fields,
\* no log lines, step index 0, an empty artifact and no armed poller.
C4_ResetEmptiesSession ==
    last.ev = "reset"
        => /\ Phase = "Idle"
           /\ view = "input"
           /\ status = "idle"
           /\ runId = NoRun
           /\ instanceId = ""
           /\ context = ""
           /\ logs = <<>>
           /\ currentStep = 0
           /\ patch = ""
           /\ pollInterval = {}

\* C5 as stated: an observation whose payload carries an error field,
\* received in Active, takes the controller to the result view with status
\* failed in the same step; no settle timer is created and Settling is not
\* entered.
C5_ErrorFieldSkipsSettling ==
    [][(Ran("pollResolved") /\ last'.data.error # Absent /\ Phase = "Active")
          => /\ Phase' = "Failed"
             /\ status' = "failed"
             /\ settle' = settle]_vars

\* C5 amended: an observation whose error field holds a non-empty value,
\* received in Active, takes the controller to the result view with status
\* failed in the same step; no settle timer is created and Settling is not
\* entered.
C5_ErrorSkipsSettling ==
    [][(Ran("pollResolved") /\ last'.data.error # Absent
           /\ last'.data.error # <<"">> /\ Phase = "Active")
          => /\ Phase' = "Failed"
             /\ status' = "failed"
             /\ settle' = settle]_vars

\* an error observation has been handled in Active
C5_Witness ==
    /\ last.ev = "pollResolved"
    /\ last.pre = "Active"
    /\ last.data.error = <<"boom">>
    /\ view = "result"
    /\ settle = <<>>

\* what a payload d without error sets the store to
ObservedLogs(d) == IF d.logs = Absent THEN <<>> ELSE d.logs[1]
ObservedStep(d) == IF d.current_step = Absent THEN 0 ELSE d.current_step[1]
ObservedPatch(d) == IF d.patch = Absent THEN "" ELSE d.patch[1]
ErrorIndicator(d) == d.error \in {<<"boom">>}

\* C6: a completed observation received in Active puts the controller in
\* Settling (hud view, poller stopped), and when its settle timer fires the
\* controller is in Terminal(Resolved) with the artifact equal to the patch
\* of that observation.
C6_CompletedSettlesThenResolves ==
    [][/\ (Ran("pollResolved") /\ ~ErrorIndicator(last'.data)
              /\ last'.data.status = "completed" /\ Phase = "Active")
            => Phase' = "Settling"
       /\ (Ran("settleTimeout") /\ last'.data.status = "completed"
              /\ Phase = "Settling")
            => (Phase' = "Resolved" /\ patch' = ObservedPatch(last'.data))]_vars

\* C7: an observation without error whose status is pending or processing,
\* received in Active, leaves the controller in Active with the stored log
\* lines and step index equal to those of the observation (replaced, not
\* appended), and between two observations an Active controller does not
\* change them.
C7_ObservationReplacesStore ==
    [][/\ (Ran("pollResolved") /\ ~ErrorIndicator(last'.data)
              /\ last'.data.status \in {"pending", "processing"}
              /\ Phase = "Active")
            => /\ Phase' = "Active"
               /\ logs' = ObservedLogs(last'.data)
               /\ currentStep' = ObservedStep(last'.data)
       /\ (~Ran("pollResolved") /\ Phase = "Active" /\ Phase' = "Active")
            => UNCHANGED <<logs, currentStep>>]_vars

\* a second progress observation has replaced non-empty logs of the first
C7_Witness ==
    /\ last.ev = "pollResolved"
    /\ last.pre = "Active"
    /\ last.data.status = "processing"
    /\ last.data.logs = << <<"l1">> >>
    /\ issued >= 2
    /\ inflight = {}
    /\ logs = <<"l1">>
    /\ Phase = "Active"

\* C8: a failed startRun takes the controller from Submitting to the result
\* view with status failed, stores no runId and arms no poller.
C8_FailedStartIsTerminal ==
    [][Ran("startRunFailed")
          => /\ view' = "result"
             /\ status' = "failed"
             /\ runId' = NoRun
             /\ pollInterval' = {}]_vars

\* C9: a rejected getStatus poll takes the controller to the result view with
\* status failed in the same step and leaves the poller of its run stopped
\* (no poller at all when it is the stored run), and no later tick issues a
\* getStatus request for a run one of whose polls was rejected.
C9_PollFailureIsFatal ==
    [][/\ Ran("pollRejected")
            => /\ view' = "result"
               /\ status' = "failed"
               /\ last'.run \notin pollInterval'
               /\ last'.run = runId => pollInterval' = {}
       /\ Ran("pollTick") => last'.run \notin fatal]_vars

\* a poll of the active run has been rejected
C9_Witness ==
    /\ last.ev = "pollRejected"
    /\ last.pre = "Active"
    /\ last.run = runId
    /\ last.run \in fatal

\* C10 as stated: a payload that contains an error field, whatever its
\* status, puts the controller in the result view with status failed.
C10_ErrorFieldFails ==
    (last.ev = "pollResolved" /\ last.data.error # Absent)
        => (view = "result" /\ status = "failed")

\* C10 amended: a payload whose error field holds a non-empty value, whatever
\* its status, puts the controller in the result view with status failed;
\* the status of the payload is not stored and Resolved is not shown.
C10_NonEmptyErrorFails ==
    (last.ev = "pollResolved" /\ last.data.error # Absent
        /\ last.data.error # <<"">>)
        => (view = "result" /\ status = "failed" /\ Phase # "Resolved")

\* a payload with status completed and a non-empty error has been handled
C10_Witness ==
    /\ last.ev = "pollResolved"
    /\ last.data.status = "completed"
    /\ last.data.error = <<"boom">>
    /\ Phase = "Failed"

\* C11: a run handle is stored exactly in the phases Active, Settling and
\* Terminal (hud and result views); Idle and Submitting hold none.
C11_HandleIffActiveOrLater ==
    (runId # NoRun) <=> (view \in {"hud", "result"})

\* C12: a getStatus request is issued, and the payload of a poll is written
\* to the store, only in states where a runId is stored.
C12_ObservationNeedsHandle ==
    [][(Ran("pollTick") \/ (Ran("pollResolved") /\ applied' # applied))
          => runId # NoRun]_vars

\* C13: startRun is called only in Idle, with no other startRun call
\* outstanding, no handle stored and no poller armed, and a new handle is
\* stored only after reset has discarded the previous one.
C13_StartOnlyFromIdle ==
    [][/\ Ran("handleSubmit")
            => /\ Phase = "Idle"
               /\ ~submitting
               /\ runId = NoRun
               /\ pollInterval = {}
       /\ Ran("startRunResolved") => (runId = NoRun /\ accepted' = accepted + 1)
       /\ accepted' # accepted => Ran("startRunResolved")]_vars

\* C14: a submit with an empty instance field sends no startRun request and
\* changes neither the phase nor status, logs, step and loading; startRun
\* requests are sent only with a non-empty instance identifier.
C14_EmptyInstanceBlocked ==
    [][/\ Ran("submitBlocked")
            => /\ instanceId = ""
               /\ UNCHANGED <<view, status, logs, currentStep, loading,
                              submitting, runId, accepted>>
               /\ Phase' = Phase
       /\ (submitting' /\ ~submitting) => instanceId # ""]_vars

\* a submit with an empty instance field has been refused in Idle
C14_Witness ==
    /\ last.ev = "submitBlocked"
    /\ last.pre = "Idle"
    /\ instanceId = ""
    /\ ~submitting
    /\ view = "input"

\* C15: the step that submits a valid request in Idle takes the controller
\* to Submitting: loading set, status pending, logs empty, step 0, with the
\* startRun call outstanding and no result of it known.
C15_SubmitEntersSubmitting ==
    [][(Ran("handleSubmit") /\ Phase = "Idle")
          => /\ Phase' = "Submitting"
             /\ loading'
             /\ status' = "pending"
             /\ logs' = <<>>
             /\ currentStep' = 0
             /\ submitting'
             /\ UNCHANGED <<runId, accepted, view>>]_vars

\* a valid request has been submitted and startRun has not returned
C15_Witness ==
    /\ last.ev = "handleSubmit"
    /\ last.pre = "Idle"
    /\ instanceId # ""
    /\ submitting
    /\ loading
    /\ status = "pending"

\* C16: no poller stays armed, and no tick issues a getStatus request, for a
\* run one of whose polls has answered completed or failed.
C16_FinalStatusStopsPoller ==
    [][/\ Ran("pollTick") => last'.run \notin finished
       /\ pollInterval' \cap finished' = {}]_vars

\* a failed observation has stopped the poller of the active run
C16_Witness ==
    /\ last.ev = "pollResolved"
    /\ last.pre = "Active"
    /\ last.data.status = "failed"
    /\ last.run = runId
    /\ last.run \in finished
    /\ Phase = "Settling"

\* C17: in Terminal(Failed) the result view shows no patch, also when the
\* store holds a patch of an earlier observation.
C17_NoArtifactOnFailure ==
    (view = "result" /\ status # "completed") => ShownPatch = ""

\* the failed result view is shown while the store holds a patch
C17_Witness ==
    /\ view = "result"
    /\ status = "failed"
    /\ patch = "diff"

\* C18: the payloads of the polls of a run are written to the store in the
\* order in which the polls were issued.
C18_AppliedInIssueOrder ==
    [][(Ran("pollResolved") /\ applied' # applied /\ applied'.run = applied.run)
          => applied'.seq > applied.seq]_vars

\* C19: when a run becomes Active the store holds no log line, step 0 and
\* no patch.
C19_NewRunStartsEmpty ==
    [][Ran("startRunResolved")
          => (logs' = <<>> /\ currentStep' = 0 /\ patch' = "")]_vars

\* C20: at most one interval timer is armed, it is armed only in the hud view
\* and for the stored runId, and a timer is armed only when none is armed.
C20_AtMostOnePoller ==
    /\ [](/\ Cardinality(pollInterval) <= 1
          /\ pollInterval # {} => (view = "hud" /\ pollInterval = {runId}))
    /\ [][(pollInterval' \ pollInterval # {}) => pollInterval = {}]_vars

\* the status values of the RunStatus enumeration
KnownStatus == {"pending", "processing", "completed", "failed"}

\* C21: a payload whose status is not pending, processing, completed or
\* failed fails the run: the result view is shown with status failed, the
\* poller is stopped and the unknown value is never stored as the status.
C21_UnknownStatusFails ==
    [][(Ran("pollResolved") /\ last'.data.status \notin KnownStatus)
          => /\ view' = "result"
             /\ status' = "failed"
             /\ pollInterval' = {}]_vars

\* C22: once a poll of an Active run has answered completed, failed or with
\* an error, the result view is eventually shown, and the settle timer of a
\* run shows Resolved exactly when the answer was completed.
C22_FinalAnswerReachesTerminal ==
    /\ (/\ last.ev = "pollResolved"
        /\ last.pre = "Active"
        /\ (last.data.status \in {"completed", "failed"}
               \/ last.data.error = <<"boom">>))
          ~> (view = "result")
    /\ [][(Ran("settleTimeout") /\ Phase = "Settling")
             => (Phase' = "Resolved" <=> last'.data.status = "completed")]_vars

\* C23: a poll answered with a non-success HTTP status fails the run (result
\* view, status failed) and its body is not written to the store.
C23_HttpErrorFails ==
    [][(Ran("pollResolved") /\ ~last'.data.ok)
          => /\ view' = "result"
             /\ status' = "failed"
             /\ UNCHANGED <<logs, currentStep, patch, applied>>]_vars

\* C24: the stored step index is one of the indices 0..5 of the six stages.
C24_StepIndexInRange ==
    currentStep \in 0 .. (NumSteps - 1)

\* C25: while the result view is shown and reset is not invoked, the view,
\* the status and the patch shown by Results do not change.
C25_TerminalIsStable ==
    [][(view = "result" /\ ~Ran("reset"))
          => (view' = "result" /\ status' = status /\ ShownPatch' = ShownPatch)]_vars

\* C26: the result view is shown only with status completed or failed.
C26_TerminalStatusIsFinal ==
    view = "result" => status \in {"completed", "failed"}

\* C27 as stated: a payload that carries an error field changes status and
\* view only: the log lines, the step index and the patch stay those of the
\* previous observation.
C27_ErrorFieldNotApplied ==
    [][(Ran("pollResolved") /\ last'.data.error # Absent)
          => /\ UNCHANGED <<logs, currentStep, patch, runId, applied>>
             /\ status' = "failed"]_vars

\* C27 amended: a payload whose error field holds a non-empty value changes
\* status (to failed) and view only: the log lines, the step index and the
\* patch stay those of the previous observation.
C27_ErrorPayloadNotApplied ==
    [][(Ran("pollResolved") /\ last'.data.error # Absent
           /\ last'.data.error # <<"">>)
          => /\ UNCHANGED <<logs, currentStep, patch, runId, applied>>
             /\ status' = "failed"
             /\ view' = "result"]_vars

\* an error payload carrying logs, step and patch has left the store of the
\* previous observation in place
C27_Witness ==
    /\ last.ev = "pollResolved"
    /\ last.data.error = <<"boom">>
    /\ last.data.logs = << <<"l2">> >>
    /\ logs = <<"l1">>
    /\ currentStep = 2
    /\ patch = ""
    /\ status = "failed"

\* C28: an applied payload that omits logs, current_step or patch empties
\* the stored log lines, sets the step index to 0 or empties the patch.
C28_OmittedFieldsAreCleared ==
    [][(Ran("pollResolved") /\ applied' # applied)
          => /\ last'.data.logs = Absent => logs' = <<>>
             /\ last'.data.current_step = Absent => currentStep' = 0
             /\ last'.data.patch = Absent => patch' = ""]_vars

\* a second payload of a run, with all three fields omitted, has been applied
C28_Witness ==
    /\ last.ev = "pollResolved"
    /\ last.pre = "Active"
    /\ last.data.logs = Absent
    /\ last.data.current_step = Absent
    /\ last.data.patch = Absent
    /\ applied.seq = 2
    /\ issued = 2
    /\ inflight = {}
    /\ logs = <<>>
    /\ currentStep = 0
    /\ patch = ""

\* C29: loading is true exactly while a startRun call is outstanding, and
\* then the form of the input view is shown (phase Submitting); it is false
\* in the hud and result views.
C29_LoadingIffSubmitting ==
    /\ loading <=> submitting
    /\ loading => view = "input"

====
